---- MODULE Spec2Model ----
(***************************************************************************)
(* Model of the chat-service of project-03-realtime-chat: the per-node     *)
(* ConnectionManager, the Redis pub/sub bridge (redis_subscriber,          *)
(* publish_to_room), the application lifespan and the websocket_endpoint   *)
(* session handler, over a shared relational store and a shared broker.    *)
(* Every node is one asyncio event loop: an action is the code that runs   *)
(* between two awaits of one task.                                         *)
(***************************************************************************)
EXTENDS Integers, Sequences, FiniteSets, TLC

\* ------------------------------------------------------------------ bounds
\* events the environment may cause in one behaviour: a connection opened, a
\* frame sent, a connection closed, a room created, an event published by a
\* peer replica, the broker lost or regained, a lost acknowledgement, a
\* failed commit, a cancelled task
MaxEvents == 3
\* the same, in the longer behaviours of WideSpec
MaxWideEvents == 4
\* the same, in the behaviours of LiveSpec
MaxLiveEvents == 2

\* ------------------------------------------------------------ the universe
\* The replica under study. Its peers run the same code and are seen only
\* through the store and the broker (PeerPublish).
Nodes == {"n1"}
\* the transports routed to it, with their path and query parameters: two
\* tabs of one user
Sessions == {"s1", "s2"}
nodeOf == [s \in Sessions |-> "n1"]
userOf == [s \in Sessions |-> "alice"]
nameOf == [s \in Sessions |-> "alice"]
\* room ids a client may ask for: one seeded, one not
RoomIds == {"general", "ghost"}
None == "None"

SEED_ROOMS == {"general", "devops", "random"}

SEED_MESSAGES ==
  << [room_id |-> "general", user_id |-> "alice",   username |-> "alice"],
     [room_id |-> "general", user_id |-> "bob",     username |-> "bob"],
     [room_id |-> "general", user_id |-> "alice",   username |-> "alice"],
     [room_id |-> "devops",  user_id |-> "charlie", username |-> "charlie"],
     [room_id |-> "devops",  user_id |-> "bob",     username |-> "bob"],
     [room_id |-> "random",  user_id |-> "alice",   username |-> "alice"] >>

\* ------------------------------------------------------------------ frames
\* A text body is a sequence of characters.
IsSpace(ch) == ch \in {" ", "\t", "\n"}

RECURSIVE lstrip(_)
lstrip(str) ==
  IF str # <<>> /\ IsSpace(Head(str)) THEN lstrip(Tail(str)) ELSE str

RECURSIVE rstrip(_)
rstrip(str) ==
  IF str # <<>> /\ IsSpace(str[Len(str)])
  THEN rstrip(SubSeq(str, 1, Len(str) - 1))
  ELSE str

\* mutant of strip: the body is taken as sent
stripNothing(str) == str

\* str.strip()
strip(str) == rstrip(lstrip(str))

\* dict.get(key, default)
Get(data, key, default) == IF key \in DOMAIN data THEN data[key] ELSE default

\* the JSON objects a client sends
Frames ==
  { [type |-> "message", content |-> <<" ", "h", "\t">>],
    [type |-> "message", content |-> <<" ", "\t">>],
    [type |-> "message"],
    [content |-> <<"h">>, message_type |-> "video"],
    [type |-> "typing"],
    [type |-> "stop_typing"],
    [type |-> "ping"] }


\* ------------------------------------------------------------------- state
VARIABLES
  rooms,            \* Durable Store: ids of the rows of table "rooms"
  messages,         \* Durable Store: rows of table "messages", in commit order
  brokerUp,         \* the Redis server is reachable
  chan,             \* per node: events Redis has sent to its pub/sub connection
  node,             \* per node: "init" before lifespan startup, then "serving"
  redis_client,     \* per node: the global redis_client is set (not None)
  subscriber_task,  \* per node: position of the redis_subscriber task
  subPayload,       \* per node: the event redis_subscriber is delivering
  subSnap,          \* per node: connections send_to_room has still to write to
  skipped,          \* per node: pmessages redis_subscriber found no room_id in
  manager_rooms,    \* per node: ConnectionManager.rooms, room id -> list
  pc,               \* per session: position of its websocket_endpoint task
  room,             \* per session: the room_id path parameter
  transport,        \* per session: the client side of the WebSocket
  closeCode,        \* per session: close code the server sent, 0 if none
  payload,          \* per session: the event publish_to_room is publishing
  snap,             \* per session: connections send_to_room has still to write to
  inbox,            \* per session: events its client has received, in order
  npub,             \* per session: calls of publish_to_room it has made
  leftPub,          \* per session: user_left events it has published
  failed,           \* per session: the msg_id whose commit raised, <<>> if none
  dropped,          \* per session: message frames ignored for an empty body
  stalled,          \* sessions whose client does not read: a write to
                    \* their transport does not complete
  npeer,            \* events peer replicas have published
  budget,           \* events the environment may still cause
  now,              \* presence: the clock of the Presence Store, in ms
  storeUp,          \* presence: the Presence Store answers
  pstore,           \* presence: the keys of the Presence Store
  lastBeat,         \* presence: per user, the time of the last heartbeat;
                    \* -1 before the first one, -2 once gone offline
  lastTyping,       \* presence: per room and user, the time of the last
                    \* start_typing
  absentDeletes,    \* presence: per kind of key, the delete requests that
                    \* found no live key
  pbudget,          \* presence: requests and clock steps still to come
  replica           \* per replica starting on the shared Durable Store:
                    \* the statement of lifespan's seeding it is at

storeVars  == <<rooms, messages>>
brokerVars == <<brokerUp, chan>>
nodeVars   == <<node, redis_client, subscriber_task>>
subVars    == <<subPayload, subSnap, skipped>>
taskVars   == <<pc, payload, snap>>
envVars    == <<npeer, budget>>
connVars   == <<room, transport, closeCode>>
ghostVars  == <<npub, leftPub, failed, dropped>>
presVars ==
  <<now, storeUp, pstore, lastBeat, lastTyping, absentDeletes, pbudget>>
chatVars ==
  <<rooms, messages, brokerUp, chan, node, redis_client, subscriber_task,
    subPayload, subSnap, skipped, manager_rooms, pc, room, transport,
    closeCode, payload, snap, inbox, npub, leftPub, failed, dropped, npeer,
    budget, stalled, replica>>
vars == <<chatVars, presVars>>

\* no event: the value of a task's payload local while it publishes nothing
NoPayload ==
  [type |-> "none", room_id |-> None, user_id |-> None, username |-> None,
   id |-> <<>>, content |-> None, message_type |-> None, file_url |-> None,
   timestamp |-> None, tag |-> <<>>, to |-> {}]

\* positions at which a websocket_endpoint task has ended
Terminal == {"rejected", "left", "errored", "cancelled"}
\* positions at which a websocket_endpoint task is suspended in an await
Awaiting == {"accept", "publish", "send", "recv"}

\* ---------------------------------------------------------- Durable Store
\* the rows lifespan adds to an empty messages table; uuid4 ids are fresh
SeedRows ==
  [i \in 1..Len(SEED_MESSAGES) |->
     [id |-> <<"seed", i>>, room_id |-> SEED_MESSAGES[i].room_id,
      user_id |-> SEED_MESSAGES[i].user_id,
      username |-> SEED_MESSAGES[i].username,
      content |-> <<"s">>, message_type |-> "text", file_url |-> None,
      created_at |-> i]]

\* mutant of Seed: the seed messages replace what the table holds
SeedAlways(rows) == SeedRows

\* lifespan, lines 149-152: the seed messages go into an empty table only
Seed(rows) == IF rows = <<>> THEN SeedRows ELSE rows

\* mutant of RoomExists: the room check passes for every id
RoomExistsAlways(room_id) == TRUE

\* db.query(RoomModel).filter(RoomModel.id == room_id).first()
RoomExists(room_id) == room_id \in rooms

\* mutant of Commit: the row is added to the session and never committed
CommitNothing(row) == messages

\* db.add(MessageModel(...)); db.commit()
Commit(row) == Append(messages, row)

StoredIds == {messages[i].id : i \in 1..Len(messages)}

\* the latest created_at in the store
Latest ==
  IF messages = <<>> THEN 0
  ELSE CHOOSE t \in {messages[i].created_at : i \in 1..Len(messages)} :
         \A i \in 1..Len(messages) : messages[i].created_at <= t

\* datetime.utcnow() at a commit: the clock has moved on since the latest
\* row was stamped, or still reads the same
utcnow == {Latest, Latest + 1}

\* GET /rooms/{room_id}/messages: the largest limit the route accepts
\* (Query(50, le=200)) and the limits clients ask for
MaxLimit == 200
Limits == {1, 2, 50, 200, 201}

\* the rows of room_id
RoomRows(room_id) ==
  {messages[i] : i \in {j \in 1..Len(messages) :
                          messages[j].room_id = room_id}}

\* ORDER BY created_at ASC over the set S of rows: every sequence of them
\* in which created_at never decreases (the order of rows of one created_at
\* is the database's choice)
RECURSIVE OrderBy(_)
OrderBy(S) ==
  IF S = {} THEN {<<>>}
  ELSE UNION {{<<r>> \o rest : rest \in OrderBy(S \ {r})} :
              r \in {x \in S : \A y \in S : x.created_at <= y.created_at}}

\* LIMIT n
Limit(rows, n) == SubSeq(rows, 1, IF n < Len(rows) THEN n ELSE Len(rows))

\* get_messages(room_id, limit): the status and the bodies the route may
\* answer with; a limit above MaxLimit is refused with 422 before the
\* handler runs
get_messages(room_id, limit) ==
  IF limit > MaxLimit THEN [status |-> 422, bodies |-> {}]
  ELSE IF ~RoomExists(room_id) THEN [status |-> 404, bodies |-> {}]
  ELSE [status |-> 200,
        bodies |-> {Limit(rows, limit) : rows \in OrderBy(RoomRows(room_id))}]

\* ------------------------------------------------------ ConnectionManager
Conn(s) == [ws |-> s, user_id |-> userOf[s], username |-> nameOf[s]]

\* mutant of connect: the list of the room is started anew
connectReset(M, ws, room_id) ==
  LET M1 == IF room_id \in DOMAIN M THEN M ELSE M @@ (room_id :> <<>>)
  IN  [M1 EXCEPT ![room_id] = <<Conn(ws)>>]

\* ConnectionManager.connect, after ws.accept()
connect(M, ws, room_id) ==
  LET M1 == IF room_id \in DOMAIN M THEN M ELSE M @@ (room_id :> <<>>)
  IN  [M1 EXCEPT ![room_id] = Append(@, Conn(ws))]

\* mutant of disconnect: the entries are matched by user id
disconnectUser(M, ws, room_id) ==
  IF room_id \in DOMAIN M
  THEN [M EXCEPT ![room_id] = SelectSeq(@, LAMBDA c : c.user_id # userOf[ws])]
  ELSE M

\* mutant of disconnect: removal by position, the last entry when the
\* connection is not in the list
disconnectAt(M, ws, room_id) ==
  IF room_id \in DOMAIN M /\ M[room_id] # <<>>
  THEN IF \E i \in 1..Len(M[room_id]) : M[room_id][i].ws = ws
       THEN [M EXCEPT ![room_id] = SelectSeq(@, LAMBDA c : c.ws # ws)]
       ELSE [M EXCEPT ![room_id] = SubSeq(@, 1, Len(@) - 1)]
  ELSE M

\* ConnectionManager.disconnect
disconnect(M, ws, room_id) ==
  IF room_id \in DOMAIN M
  THEN [M EXCEPT ![room_id] = SelectSeq(@, LAMBDA c : c.ws # ws)]
  ELSE M

\* mutant of Snapshot: the connections of all rooms
RECURSIVE Flatten(_, _)
Flatten(M, D) ==
  IF D = {} THEN <<>>
  ELSE LET r == CHOOSE x \in D : TRUE IN M[r] \o Flatten(M, D \ {r})

SnapshotAll(M, room_id) == Flatten(M, DOMAIN M)

\* list(self.rooms.get(room_id, []))
Snapshot(M, room_id) == IF room_id \in DOMAIN M THEN M[room_id] ELSE <<>>

Registered(s) ==
  \E r \in DOMAIN manager_rooms[nodeOf[s]] :
    \E i \in 1..Len(manager_rooms[nodeOf[s]][r]) :
      manager_rooms[nodeOf[s]][r][i].ws = s

\* the transport can still carry a frame to the client
IsOpen(s) == transport[s] = "open" /\ pc[s] \notin Terminal

\* `await conn["ws"].send_json(message)` is suspended: the transport is
\* open and the client takes nothing
Pending(s) == IsOpen(s) /\ s \in stalled

\* conn["ws"].send_json(message) inside try/except Exception: pass
send_json(box, c, message) ==
  IF IsOpen(c.ws) THEN [box EXCEPT ![c.ws] = Append(@, message)] ELSE box

\* mutant of Rest: an exception of send_json ends the loop
RestAbort(lst) == IF IsOpen(Head(lst).ws) THEN Tail(lst) ELSE <<>>

\* the connections the loop of send_to_room has still to write to after the
\* first of lst: the others, whether send_json returned or raised
Rest(lst) == Tail(lst)


\* ---------------------------------------------------------- Fan-out Bridge
\* where a session task goes when publish_to_room returns to its caller:
\* back to `await ws.receive_json()`, or to the end of the handler after the
\* user_left of the WebSocketDisconnect clause
Continuation(pl) == IF pl.type = "user_left" THEN "left" ELSE "recv"

\* mutant of Fallback: the call returns without the local broadcast
FallbackSkip(pl, M) ==
  [pc |-> Continuation(pl), payload |-> NoPayload, snap |-> <<>>]

\* publish_to_room, line 133: `await manager.send_to_room(room_id, payload)`
\* up to its first await; with nobody to write to, the call returns at once
Fallback(pl, M) ==
  LET lst == Snapshot(M, pl.room_id)
  IN  IF lst = <<>>
      THEN [pc |-> Continuation(pl), payload |-> NoPayload, snap |-> <<>>]
      ELSE [pc |-> "send", payload |-> pl, snap |-> lst]

\* publish_to_room up to its first await, called by a task of node n whose
\* registry is M: with a client, `await redis_client.publish(...)`
publish_to_room(n, pl, M) ==
  IF redis_client[n]
  THEN [pc |-> "publish", payload |-> pl, snap |-> <<>>]
  ELSE Fallback(pl, M)

\* the pub/sub connection of node m holds the room:* pattern subscription
Subscribed(m) == subscriber_task[m] \in {"listening", "sending"}

\* json.dumps(payload) of an event dict: the text of a JSON object
dumps(pl) == [wire |-> "object", data |-> pl]

\* what a channel of the broker carries besides the text of a JSON object:
\* the text of a JSON value that is no object, and text that is no JSON
WireKinds == {"object", "array", "text"}

\* what the broker does with a PUBLISH of text raw it accepts: one copy to
\* every subscribed connection
Deliver(raw) ==
  [m \in Nodes |-> IF Subscribed(m) THEN Append(chan[m], raw) ELSE chan[m]]

\* redis_client.publish(f"room:{room_id}", json.dumps(payload)) accepted
BrokerFanout(pl) == Deliver(dumps(pl))

\* the local variables of session s take the values of record r
Goto(s, r) ==
  /\ pc' = [pc EXCEPT ![s] = r.pc]
  /\ payload' = [payload EXCEPT ![s] = r.payload]
  /\ snap' = [snap EXCEPT ![s] = r.snap]

\* publish_to_room returns to session s
Return(s) ==
  Goto(s, [pc |-> Continuation(payload[s]), payload |-> NoPayload,
           snap |-> <<>>])

\* the transports registered for room_id in registry M
Members(M, room_id) ==
  {Snapshot(M, room_id)[i].ws : i \in 1..Len(Snapshot(M, room_id))}

\* mutant of Event: the dict carries no display name
EventUnnamed(s, type, id, M) ==
  [NoPayload EXCEPT
     !.type = type, !.room_id = room[s], !.user_id = userOf[s], !.id = id,
     !.tag = <<s, npub[s] + 1>>, !.to = Members(M, room[s])]

\* the event dicts websocket_endpoint builds. Not in the dict: tag names the
\* publish call, to the connections the node holds for the room at the call
Event(s, type, id, M) ==
  [NoPayload EXCEPT
     !.type = type, !.room_id = room[s], !.user_id = userOf[s],
     !.username = nameOf[s], !.id = id,
     !.tag = <<s, npub[s] + 1>>, !.to = Members(M, room[s])]

\* datetime.isoformat(): the text of a time
isoformat(t) == <<"iso", t>>

\* a clock reading made after the reading t
Later(t) == {t, t + 1}

\* the message event of lines 332-341, built from the locals content,
\* msg_type and file_url and from a clock reading t of its own
MessageEvent(s, data, msg_id, t, M) ==
  [Event(s, "message", msg_id, M) EXCEPT
     !.content = strip(Get(data, "content", <<>>)),
     !.message_type = Get(data, "message_type", "text"),
     !.file_url = Get(data, "file_url", None),
     !.timestamp = isoformat(t)]

\* session s calls publish_to_room(room_id, pl) with registry M
CallPublish(s, pl, M) ==
  /\ Goto(s, publish_to_room(nodeOf[s], pl, M))
  /\ npub' = [npub EXCEPT ![s] = @ + 1]
  /\ leftPub' =
       [leftPub EXCEPT ![s] = IF pl.type = "user_left" THEN @ + 1 ELSE @]

\* the environment causes one more event
Spend == budget > 0 /\ budget' = budget - 1

\* `await redis_client.publish(...)` returns: the broker took the event
PublishOk(s) ==
  /\ pc[s] = "publish"
  /\ brokerUp
  /\ chan' = BrokerFanout(payload[s])
  /\ Return(s)
  /\ UNCHANGED <<storeVars, brokerUp, nodeVars, subVars, manager_rooms,
                 connVars, inbox, ghostVars, envVars>>
  /\ UNCHANGED <<stalled, presVars, replica>>

\* `await redis_client.publish(...)` raises, the broker being unreachable:
\* except Exception: pass, then the local fallback
PublishFail(s) ==
  /\ pc[s] = "publish"
  /\ ~brokerUp
  /\ Goto(s, Fallback(payload[s], manager_rooms[nodeOf[s]]))
  /\ UNCHANGED <<storeVars, brokerVars, nodeVars, subVars, manager_rooms,
                 connVars, inbox, ghostVars, envVars>>
  /\ UNCHANGED <<stalled, presVars, replica>>

\* `await redis_client.publish(...)` raises although the broker took the
\* event (the reply was lost or timed out): the local fallback runs too
PublishAckLost(s) ==
  /\ pc[s] = "publish"
  /\ brokerUp
  /\ Spend
  /\ chan' = BrokerFanout(payload[s])
  /\ Goto(s, Fallback(payload[s], manager_rooms[nodeOf[s]]))
  /\ UNCHANGED <<storeVars, brokerUp, nodeVars, subVars, manager_rooms,
                 connVars, inbox, ghostVars, npeer>>
  /\ UNCHANGED <<stalled, presVars, replica>>

\* send_to_room called from publish_to_room: one `await send_json` of the loop
\* over the snapshot; after the last one the call returns to the session
SendStep(s) ==
  /\ pc[s] = "send"
  /\ ~Pending(Head(snap[s]).ws)
  /\ inbox' = send_json(inbox, Head(snap[s]), payload[s])
  /\ IF Rest(snap[s]) = <<>>
     THEN Return(s)
     ELSE Goto(s, [pc |-> "send", payload |-> payload[s],
                   snap |-> Rest(snap[s])])
  /\ UNCHANGED <<storeVars, brokerVars, nodeVars, subVars, manager_rooms,
                 connVars, ghostVars, envVars>>
  /\ UNCHANGED <<stalled, presVars, replica>>

\* --------------------------------------------------------------- lifespan
\* lifespan up to `yield`: seed an empty store, then connect to Redis and
\* create the subscriber task, or run without a client when ping raises
Startup(n) ==
  /\ node[n] = "init"
  /\ node' = [node EXCEPT ![n] = "serving"]
  /\ rooms' = IF rooms = {} THEN SEED_ROOMS ELSE rooms
  /\ messages' = Seed(messages)
  /\ redis_client' = [redis_client EXCEPT ![n] = brokerUp]
  /\ subscriber_task' =
       [subscriber_task EXCEPT ![n] = IF brokerUp THEN "starting" ELSE "None"]
  /\ UNCHANGED <<brokerVars, subVars, manager_rooms, taskVars, connVars,
                 inbox, ghostVars, envVars>>
  /\ UNCHANGED <<stalled, presVars, replica>>

\* ------------------------------------------------------- redis_subscriber
\* `await pubsub.psubscribe("room:*")`: subscribed, or the call raises and
\* the task ends
SubSubscribe(n) ==
  /\ subscriber_task[n] = "starting"
  /\ subscriber_task' =
       [subscriber_task EXCEPT ![n] = IF brokerUp THEN "listening" ELSE "dead"]
  /\ UNCHANGED <<storeVars, brokerVars, node, redis_client, subVars,
                 manager_rooms, taskVars, connVars, inbox, ghostVars,
                 envVars>>
  /\ UNCHANGED <<stalled, presVars, replica>>

\* json.loads(message["data"]): the value, or raised for text that is no JSON
loads(raw) ==
  IF raw.wire = "text"
  THEN [raised |-> TRUE, isdict |-> FALSE, value |-> NoPayload]
  ELSE [raised |-> FALSE, isdict |-> raw.wire = "object", value |-> raw.data]

\* mutant of Targets: the room is read under a key the events do not have
TargetsWrongKey(n, raw) ==
  IF Get(loads(raw).value, "room", None) # None
  THEN Snapshot(manager_rooms[n], Get(loads(raw).value, "room", None))
  ELSE <<>>

\* mutant of Targets: whatever of the text reads as a room_id is used
TargetsLenient(n, raw) ==
  IF raw.data.room_id # None
  THEN Snapshot(manager_rooms[n], raw.data.room_id)
  ELSE <<>>

\* the connections redis_subscriber hands a received pmessage to, lines
\* 112-118: those of its room_id; none when json.loads raises, when data.get
\* raises (the value is no dict) or when there is no room_id
Targets(n, raw) ==
  LET data == loads(raw)
  IN  IF data.raised \/ ~data.isdict THEN <<>>
      ELSE IF Get(data.value, "room_id", None) = None THEN <<>>
      ELSE Snapshot(manager_rooms[n], data.value.room_id)

\* one turn of `async for message in pubsub.listen()`
SubListen(n) ==
  /\ subscriber_task[n] = "listening"
  /\ chan[n] # <<>>
  /\ chan' = [chan EXCEPT ![n] = Tail(@)]
  /\ LET raw == Head(chan[n])
         lst == Targets(n, raw)
     IN  IF lst = <<>>
         THEN /\ skipped' =
                   [skipped EXCEPT ![n] =
                      IF loads(raw).raised \/ ~loads(raw).isdict
                           \/ Get(loads(raw).value, "room_id", None) = None
                      THEN @ + 1 ELSE @]
              /\ UNCHANGED <<subscriber_task, subPayload, subSnap>>
         ELSE /\ subscriber_task' = [subscriber_task EXCEPT ![n] = "sending"]
              /\ subPayload' = [subPayload EXCEPT ![n] = loads(raw).value]
              /\ subSnap' = [subSnap EXCEPT ![n] = lst]
              /\ UNCHANGED skipped
  /\ UNCHANGED <<storeVars, brokerUp, node, redis_client, manager_rooms,
                 taskVars, connVars, inbox, ghostVars, envVars>>
  /\ UNCHANGED <<stalled, presVars, replica>>

\* send_to_room called from redis_subscriber: one `await send_json`
SubSend(n) ==
  /\ subscriber_task[n] = "sending"
  /\ ~Pending(Head(subSnap[n]).ws)
  /\ inbox' = send_json(inbox, Head(subSnap[n]), subPayload[n])
  /\ IF Rest(subSnap[n]) = <<>>
     THEN /\ subscriber_task' = [subscriber_task EXCEPT ![n] = "listening"]
          /\ subPayload' = [subPayload EXCEPT ![n] = NoPayload]
          /\ subSnap' = [subSnap EXCEPT ![n] = <<>>]
     ELSE /\ subSnap' = [subSnap EXCEPT ![n] = Rest(subSnap[n])]
          /\ UNCHANGED <<subscriber_task, subPayload>>
  /\ UNCHANGED <<storeVars, brokerVars, node, redis_client, skipped,
                 manager_rooms, taskVars, connVars, ghostVars, envVars>>
  /\ UNCHANGED <<stalled, presVars, replica>>

\* pubsub.listen() raises ConnectionError while the broker is unreachable:
\* only CancelledError is handled, the task ends and what the connection
\* had not yet handed over is gone
SubDie(n) ==
  /\ subscriber_task[n] = "listening"
  /\ ~brokerUp
  /\ subscriber_task' = [subscriber_task EXCEPT ![n] = "dead"]
  /\ chan' = [chan EXCEPT ![n] = <<>>]
  /\ UNCHANGED <<storeVars, brokerUp, node, redis_client, subVars,
                 manager_rooms, taskVars, connVars, inbox, ghostVars,
                 envVars>>
  /\ UNCHANGED <<stalled, presVars, replica>>

\* ------------------------------------------------------------ environment
BrokerDown ==
  /\ brokerUp
  /\ Spend
  /\ brokerUp' = FALSE
  /\ UNCHANGED <<storeVars, chan, nodeVars, subVars, manager_rooms, taskVars,
                 connVars, inbox, ghostVars, npeer>>
  /\ UNCHANGED <<stalled, presVars, replica>>

BrokerBack ==
  /\ ~brokerUp
  /\ Spend
  /\ brokerUp' = TRUE
  /\ UNCHANGED <<storeVars, chan, nodeVars, subVars, manager_rooms, taskVars,
                 connVars, inbox, ghostVars, npeer>>
  /\ UNCHANGED <<stalled, presVars, replica>>

\* what sessions on peer replicas publish
PeerTypes == {"message"}

\* a session of user carol on a peer replica, attached to room general, runs
\* lines 317-342 (commit, then publish) and its
\* `await redis_client.publish(...)` returns; the peer's clock reads the
\* same at its two readings
PeerPublish(type) ==
  /\ brokerUp
  /\ RoomExists("general")
  /\ Spend
  /\ npeer' = npeer + 1
  /\ LET id == IF type = "message" THEN <<"peer", npeer + 1>> ELSE <<>>
         pl == [NoPayload EXCEPT
                  !.type = type, !.room_id = "general", !.user_id = "carol",
                  !.username = "carol", !.id = id,
                  !.tag = <<"peer", npeer + 1>>]
     IN  \E t \in utcnow :
           /\ messages' =
                IF type = "message"
                THEN Commit([id |-> id, room_id |-> "general",
                             user_id |-> "carol", username |-> "carol",
                             content |-> <<"h">>, message_type |-> "text",
                             file_url |-> None, created_at |-> t])
                ELSE messages
           /\ chan' =
                BrokerFanout(IF type = "message"
                             THEN [pl EXCEPT !.content = <<"h">>,
                                             !.message_type = "text",
                                             !.timestamp = isoformat(t)]
                             ELSE pl)
  /\ UNCHANGED <<rooms, brokerUp, nodeVars, subVars, manager_rooms, taskVars,
                 connVars, inbox, ghostVars>>
  /\ UNCHANGED <<stalled, presVars, replica>>

\* something else of the deployment publishes on a room:* channel text that
\* no publish_to_room produces: no JSON, a JSON array, an object without
\* room_id
PublishRaw(kind) ==
  /\ brokerUp
  /\ Spend
  /\ npeer' = npeer + 1
  /\ chan' =
       Deliver([wire |-> kind,
                data |-> [NoPayload EXCEPT
                            !.type = IF kind = "object" THEN "system"
                                     ELSE "malformed",
                            !.room_id = IF kind = "object" THEN None
                                        ELSE "general",
                            !.tag = <<"peer", npeer + 1>>]])
  /\ UNCHANGED <<storeVars, brokerUp, nodeVars, subVars, manager_rooms,
                 taskVars, connVars, inbox, ghostVars>>
  /\ UNCHANGED <<stalled, presVars, replica>>

\* a peer replica is the first of the deployment to start: its lifespan
\* seeds the empty Durable Store
PeerStartup ==
  /\ rooms = {}
  /\ Spend
  /\ rooms' = SEED_ROOMS
  /\ messages' = Seed(messages)
  /\ UNCHANGED <<brokerVars, nodeVars, subVars, manager_rooms, taskVars,
                 connVars, inbox, ghostVars, npeer>>
  /\ UNCHANGED <<stalled, presVars, replica>>

\* POST /rooms with an id not taken yet (a taken id answers 409)
create_room(r) ==
  /\ \E n \in Nodes : node[n] = "serving"
  /\ ~RoomExists(r)
  /\ Spend
  /\ rooms' = rooms \cup {r}
  /\ UNCHANGED <<messages, brokerVars, nodeVars, subVars, manager_rooms,
                 taskVars, connVars, inbox, ghostVars, npeer>>
  /\ UNCHANGED <<stalled, presVars, replica>>

\* ----------------------------------------------------- websocket_endpoint
\* a client opens /ws/{r}/{user_id}: the room check, lines 284-292; an
\* unknown room is answered with close code 4004 and the handler returns
Open(s, r) ==
  /\ pc[s] = "idle"
  /\ node[nodeOf[s]] = "serving"
  /\ Spend
  /\ room' = [room EXCEPT ![s] = r]
  /\ transport' = [transport EXCEPT ![s] = "open"]
  /\ IF RoomExists(r)
     THEN /\ pc' = [pc EXCEPT ![s] = "accept"]
          /\ UNCHANGED closeCode
     ELSE /\ pc' = [pc EXCEPT ![s] = "rejected"]
          /\ closeCode' = [closeCode EXCEPT ![s] = 4004]
  /\ UNCHANGED <<storeVars, brokerVars, nodeVars, subVars, manager_rooms,
                 payload, snap, inbox, ghostVars, npeer>>
  /\ UNCHANGED <<stalled, presVars, replica>>

\* `await ws.accept()` returns: manager.connect registers the connection
\* and the handler announces the join, lines 294-303
Accept(s) ==
  /\ pc[s] = "accept"
  /\ LET n == nodeOf[s]
         M == connect(manager_rooms[n], s, room[s])
     IN  /\ manager_rooms' = [manager_rooms EXCEPT ![n] = M]
         /\ CallPublish(s, Event(s, "user_joined", <<>>, M), M)
  /\ UNCHANGED <<storeVars, brokerVars, nodeVars, subVars, connVars, inbox,
                 failed, dropped, envVars>>
  /\ UNCHANGED <<stalled, presVars, replica>>

\* the except Exception clause, lines 369-370
OnException(s) ==
  /\ manager_rooms' =
       [manager_rooms EXCEPT ![nodeOf[s]] = disconnect(@, s, room[s])]
  /\ Goto(s, [pc |-> "errored", payload |-> NoPayload, snap |-> <<>>])
  /\ UNCHANGED <<npub, leftPub>>

\* the except WebSocketDisconnect clause, lines 360-368
OnDisconnect(s) ==
  LET n == nodeOf[s]
      M == disconnect(manager_rooms[n], s, room[s])
  IN  /\ manager_rooms' = [manager_rooms EXCEPT ![n] = M]
      /\ CallPublish(s, Event(s, "user_left", <<>>, M), M)

\* the row a message frame is stored as, lines 318-326
Row(s, data, msg_id, t) ==
  [id |-> msg_id, room_id |-> room[s], user_id |-> userOf[s],
   username |-> nameOf[s], content |-> strip(Get(data, "content", <<>>)),
   message_type |-> Get(data, "message_type", "text"),
   file_url |-> Get(data, "file_url", None), created_at |-> t]

\* mutant of event_type: a frame without a type has none
event_typeRequired(data) == Get(data, "type", None)

\* event_type = data.get("type", "message")
event_type(data) == Get(data, "type", "message")

\* `if not content: continue`
IsEmptyBody(data) == strip(Get(data, "content", <<>>)) = <<>>

\* `await ws.receive_json()` returns frame data: one turn of the loop, lines
\* 307-358, up to its next await; db.commit() returns
Recv(s, data) ==
  /\ pc[s] = "recv"
  /\ transport[s] = "open"
  /\ Spend
  /\ LET msg_id == <<s, npub[s] + 1>>
         M      == manager_rooms[nodeOf[s]]
     IN  CASE event_type(data) = "message" /\ IsEmptyBody(data) ->
                /\ dropped' = [dropped EXCEPT ![s] = @ + 1]
                /\ UNCHANGED <<messages, taskVars, npub, leftPub>>
           [] event_type(data) = "message" /\ ~IsEmptyBody(data) ->
                /\ \E t \in utcnow, t2 \in UNION {Later(u) : u \in utcnow} :
                     /\ t2 \in Later(t)
                     /\ messages' = Commit(Row(s, data, msg_id, t))
                     /\ CallPublish(s, MessageEvent(s, data, msg_id, t2, M),
                                    M)
                /\ UNCHANGED dropped
           [] event_type(data) \in {"typing", "stop_typing"} ->
                /\ CallPublish(s, Event(s, event_type(data), <<>>, M), M)
                /\ UNCHANGED <<messages, dropped>>
           [] OTHER ->
                UNCHANGED <<messages, taskVars, npub, leftPub, dropped>>
  /\ UNCHANGED <<rooms, brokerVars, nodeVars, subVars, manager_rooms,
                 connVars, inbox, failed, npeer>>
  /\ UNCHANGED <<stalled, presVars, replica>>

\* mutant of CommitRaises: the exception is swallowed and the handler goes on
\* to publish the message
CommitSwallowed(s, data) ==
  /\ CallPublish(s, Event(s, "message", <<s, npub[s] + 1>>,
                          manager_rooms[nodeOf[s]]),
                 manager_rooms[nodeOf[s]])
  /\ UNCHANGED manager_rooms

\* db.commit() raises at line 327: finally db.close(), and the exception
\* leaves the loop for the except Exception clause
CommitRaises(s, data) == OnException(s)

\* the same turn for a message frame with a body when db.commit() raises
RecvCommitFails(s, data) ==
  /\ pc[s] = "recv"
  /\ transport[s] = "open"
  /\ event_type(data) = "message"
  /\ ~IsEmptyBody(data)
  /\ Spend
  /\ failed' = [failed EXCEPT ![s] = <<s, npub[s] + 1>>]
  /\ CommitRaises(s, data)
  /\ UNCHANGED <<storeVars, brokerVars, nodeVars, subVars, connVars, inbox,
                 dropped, npeer>>
  /\ UNCHANGED <<stalled, presVars, replica>>

\* `await ws.receive_json()` raises on a frame that is not JSON: the except
\* Exception clause
RecvMalformed(s) ==
  /\ pc[s] = "recv"
  /\ transport[s] = "open"
  /\ Spend
  /\ OnException(s)
  /\ UNCHANGED <<storeVars, brokerVars, nodeVars, subVars, connVars, inbox,
                 failed, dropped, npeer>>
  /\ UNCHANGED <<stalled, presVars, replica>>

\* `await ws.receive_json()` raises WebSocketDisconnect
RecvDisconnect(s) ==
  /\ pc[s] = "recv"
  /\ transport[s] = "closed"
  /\ OnDisconnect(s)
  /\ UNCHANGED <<storeVars, brokerVars, nodeVars, subVars, connVars, inbox,
                 failed, dropped, envVars>>
  /\ UNCHANGED <<stalled, presVars, replica>>

\* the task is cancelled while suspended: CancelledError is not an
\* Exception, so neither except clause of lines 360-370 runs
Cancel(s) ==
  /\ pc[s] \in Awaiting
  /\ Spend
  /\ Goto(s, [pc |-> "cancelled", payload |-> NoPayload, snap |-> <<>>])
  /\ UNCHANGED <<storeVars, brokerVars, nodeVars, subVars, manager_rooms,
                 connVars, inbox, ghostVars, npeer>>
  /\ UNCHANGED <<stalled, presVars, replica>>

\* the client closes its end of the WebSocket
ClientClose(s) ==
  /\ pc[s] \in Awaiting
  /\ transport[s] = "open"
  /\ Spend
  /\ transport' = [transport EXCEPT ![s] = "closed"]
  /\ UNCHANGED <<storeVars, brokerVars, nodeVars, subVars, manager_rooms,
                 taskVars, room, closeCode, inbox, ghostVars, npeer>>
  /\ UNCHANGED <<stalled, presVars, replica>>

\* the client stops reading: its receive window fills and writes to it wait
ClientStall(s) ==
  /\ Registered(s) /\ IsOpen(s)
  /\ s \notin stalled
  /\ Spend
  /\ stalled' = stalled \cup {s}
  /\ UNCHANGED <<storeVars, brokerVars, nodeVars, subVars, manager_rooms,
                 taskVars, connVars, inbox, ghostVars, npeer, presVars, replica>>

\* the client reads again: the waiting write completes
ClientDrain(s) ==
  /\ s \in stalled
  /\ stalled' = stalled \ {s}
  /\ UNCHANGED <<storeVars, brokerVars, nodeVars, subVars, manager_rooms,
                 taskVars, connVars, inbox, ghostVars, envVars, presVars, replica>>

\* ---------------------------------------------------------------------
\* Presence service (presence-service/main.py). It is a separate process
\* with its own keys in the Presence Store; times are in milliseconds.
\* ---------------------------------------------------------------------

MaxPresenceEvents == 5

ONLINE_TTL_SECONDS == 30

TYPING_TTL_SECONDS == 5

\* user ids and room ids of the requests; the path parameters are free
\* strings, and some hold a colon
PresenceUsers == {"alice", "dev:alice"}

PresenceRooms == {"general", "general:dev"}

\* str.split(":"): a string as the sequence of its colon-separated parts
split(str) ==
  CASE str = "dev:alice"   -> <<"dev", "alice">>
    [] str = "general:dev" -> <<"general", "dev">>
    [] OTHER               -> <<str>>

\* display names a heartbeat may carry: the default one and the empty one
DisplayNames == {"anonymous", ""}

\* the clock steps the environment takes between two requests
Durations == {250, 4750, 25000}

Absent == [value |-> None, expire_at |-> 0]

\* A key is held as the sequence of its colon-separated parts.
\* f"presence:user:{user_id}"
UserKey(user_id) == <<"presence", "user">> \o split(user_id)

\* f"presence:typing:{room_id}:{user_id}"
TypingKey(room_id, user_id) ==
  <<"presence", "typing">> \o split(room_id) \o split(user_id)

PresenceKeys ==
  {UserKey(u) : u \in PresenceUsers} \cup
  {TypingKey(r, u) : r \in PresenceRooms, u \in PresenceUsers}

\* key.split(":")[-1]
SplitLast(key) == key[Len(key)]

\* mutant of removeprefix: the part after the last colon
removeprefixLast(key) == key[Len(key)]

\* key.removeprefix("presence:user:")
removeprefix(key) ==
  CHOOSE str \in PresenceUsers : split(str) = SubSeq(key, 3, Len(key))

\* a key is in the store from its SETEX until its expiry time or its DEL
Live(key) == pstore[key] # Absent /\ now < pstore[key].expire_at

setex(key, seconds, value) ==
  [pstore EXCEPT ![key] = [value |-> value, expire_at |-> now + seconds * 1000]]

\* mutant of delete: the key is left to expire a second later
deleteLater(key) ==
  IF Live(key) THEN [pstore EXCEPT ![key].expire_at = now + 1000] ELSE pstore

delete(key) == [pstore EXCEPT ![key] = Absent]

\* ghost: one more delete request of a key of this kind that is not live
CountAbsent(key) ==
  absentDeletes' =
    IF Live(key) THEN absentDeletes
    ELSE [absentDeletes EXCEPT ![key[2]] = @ + 1]

get(key) == IF Live(key) THEN pstore[key].value ELSE None

\* TTL replies -2 for a missing key and otherwise the remaining time in
\* whole seconds, rounded to the nearest second
ttl(key) ==
  IF Live(key) THEN (pstore[key].expire_at - now + 500) \div 1000 ELSE -2

\* KEYS "<prefix>:*"
keys(prefix) ==
  {k \in PresenceKeys :
     Live(k) /\ Len(k) > Len(prefix) /\ SubSeq(k, 1, Len(prefix)) = prefix}

\* truth value of an Optional[str]: None and "" are false
Truthy(v) == v # None /\ v # ""

\* "if username and ttl > 0"
Online(username, t) == Truthy(username) /\ t > 0

get_all_online ==
  {[user_id |-> removeprefix(key), username |-> get(key), online |-> TRUE] :
     key \in {k \in keys(<<"presence", "user">>) : Online(get(k), ttl(k))}}

get_user_presence(user_id) ==
  LET key      == UserKey(user_id)
      username == get(key)
  IN  [user_id  |-> user_id,
       username |-> IF Truthy(username) THEN username ELSE user_id,
       online   |-> Online(username, ttl(key))]

get_typing_in_room(room_id) ==
  {[user_id |-> SplitLast(key), username |-> get(key), room_id |-> room_id] :
     key \in {k \in keys(<<"presence", "typing">> \o split(room_id)) :
                Online(get(k), ttl(k))}}

\* what a read route answers: its handler has no try/except, so an
\* exception of a redis_client call, at whichever call of the handler it is
\* raised, ends the request with a 500
Reply(body) ==
  IF storeUp THEN [status |-> 200, body |-> body]
  ELSE [status |-> 500, body |-> {}]

PresenceSpend ==
  /\ pbudget > 0
  /\ pbudget' = pbudget - 1

heartbeat(user_id, username) ==
  /\ storeUp
  /\ PresenceSpend
  /\ pstore' = setex(UserKey(user_id), ONLINE_TTL_SECONDS, username)
  /\ lastBeat' = [lastBeat EXCEPT ![user_id] = now]
  /\ UNCHANGED <<storeUp, now, lastTyping, absentDeletes, chatVars>>

go_offline(user_id) ==
  /\ storeUp
  /\ PresenceSpend
  /\ pstore' = delete(UserKey(user_id))
  /\ lastBeat' = [lastBeat EXCEPT ![user_id] = -2]
  /\ CountAbsent(UserKey(user_id))
  /\ UNCHANGED <<storeUp, now, lastTyping, chatVars>>

start_typing(user_id, room_id, username) ==
  /\ storeUp
  /\ PresenceSpend
  /\ pstore' = setex(TypingKey(room_id, user_id), TYPING_TTL_SECONDS, username)
  /\ lastTyping' = [lastTyping EXCEPT ![room_id, user_id] = now]
  /\ UNCHANGED <<storeUp, now, lastBeat, absentDeletes, chatVars>>

stop_typing(user_id, room_id) ==
  /\ storeUp
  /\ PresenceSpend
  /\ pstore' = delete(TypingKey(room_id, user_id))
  /\ lastTyping' = [lastTyping EXCEPT ![room_id, user_id] = -1]
  /\ CountAbsent(TypingKey(room_id, user_id))
  /\ UNCHANGED <<storeUp, now, lastBeat, chatVars>>

Advance(d) ==
  /\ PresenceSpend
  /\ now' = now + d
  /\ UNCHANGED <<storeUp, pstore, lastBeat, lastTyping, absentDeletes, chatVars>>

\* the Presence Store stops answering, and answers again
StoreDown ==
  /\ storeUp
  /\ PresenceSpend
  /\ storeUp' = FALSE
  /\ UNCHANGED <<now, pstore, lastBeat, lastTyping, absentDeletes, chatVars>>

StoreBack ==
  /\ ~storeUp
  /\ PresenceSpend
  /\ storeUp' = TRUE
  /\ UNCHANGED <<now, pstore, lastBeat, lastTyping, absentDeletes, chatVars>>

\* a write route called while the store does not answer: the redis_client
\* call raises, nothing is written
WriteFails ==
  /\ ~storeUp
  /\ PresenceSpend
  /\ UNCHANGED <<now, storeUp, pstore, lastBeat, lastTyping, absentDeletes,
                 chatVars>>


\* ---------------------------------------------------------------------
\* lifespan's seeding, statement by statement, run by replicas that start
\* on one Durable Store. Each statement is one transaction step of the
\* database; between two of them another replica may run its own.
\* ---------------------------------------------------------------------

Replicas == {"r1", "r2", "r3"}

\* the rows one replica adds: the seed messages under fresh uuid4 ids
FreshSeedRows ==
  [i \in 1..Len(SEED_MESSAGES) |->
     [SeedRows[i] EXCEPT !.id = <<"seed", Len(messages) + i>>]]

At(p, at, to) ==
  /\ replica[p] = at
  /\ replica' = [replica EXCEPT ![p] = to]

SeedUnchanged ==
  UNCHANGED <<brokerVars, nodeVars, subVars, manager_rooms, taskVars,
              connVars, inbox, ghostVars, envVars, stalled, presVars>>

\* if db.query(RoomModel).count() == 0:
SeedCountRooms(p) ==
  /\ At(p, "init", IF rooms = {} THEN "add_rooms" ELSE "count_messages")
  /\ UNCHANGED storeVars
  /\ SeedUnchanged

\* db.add(RoomModel(**r)) for the seed rooms; db.commit(). The id is the
\* primary key: when a seed room is there already the commit raises and
\* lifespan ends with that exception, the application does not start
SeedCommitRooms(p) ==
  /\ IF rooms \cap SEED_ROOMS = {}
        THEN /\ At(p, "add_rooms", "count_messages")
             /\ rooms' = rooms \cup SEED_ROOMS
        ELSE /\ At(p, "add_rooms", "failed")
             /\ rooms' = rooms
  /\ UNCHANGED messages
  /\ SeedUnchanged

\* if db.query(MessageModel).count() == 0:
SeedCountMessages(p) ==
  /\ At(p, "count_messages",
         IF messages = <<>> THEN "add_messages" ELSE "seeded")
  /\ UNCHANGED storeVars
  /\ SeedUnchanged

\* db.add(MessageModel(id=str(uuid.uuid4()), ...)) for the seed messages;
\* db.commit()
SeedCommitMessages(p) ==
  /\ At(p, "add_messages", "seeded")
  /\ messages' = messages \o FreshSeedRows
  /\ UNCHANGED rooms
  /\ SeedUnchanged

InitWith(events) ==
  /\ rooms = {}
  /\ messages = <<>>
  /\ brokerUp = TRUE
  /\ chan = [n \in Nodes |-> <<>>]
  /\ node = [n \in Nodes |-> "init"]
  /\ redis_client = [n \in Nodes |-> FALSE]
  /\ subscriber_task = [n \in Nodes |-> "None"]
  /\ subPayload = [n \in Nodes |-> NoPayload]
  /\ subSnap = [n \in Nodes |-> <<>>]
  /\ skipped = [n \in Nodes |-> 0]
  /\ manager_rooms = [n \in Nodes |-> <<>>]
  /\ pc = [s \in Sessions |-> "idle"]
  /\ room = [s \in Sessions |-> None]
  /\ transport = [s \in Sessions |-> "none"]
  /\ closeCode = [s \in Sessions |-> 0]
  /\ payload = [s \in Sessions |-> NoPayload]
  /\ snap = [s \in Sessions |-> <<>>]
  /\ inbox = [s \in Sessions |-> <<>>]
  /\ npub = [s \in Sessions |-> 0]
  /\ leftPub = [s \in Sessions |-> 0]
  /\ failed = [s \in Sessions |-> <<>>]
  /\ dropped = [s \in Sessions |-> 0]
  /\ npeer = 0
  /\ budget = events
  /\ stalled = {}
  /\ now = 0
  /\ storeUp = TRUE
  /\ pstore = [k \in PresenceKeys |-> Absent]
  /\ lastBeat = [u \in PresenceUsers |-> -1]
  /\ lastTyping = [r \in PresenceRooms, u \in PresenceUsers |-> -1]
  /\ absentDeletes = [kind \in {"user", "typing"} |-> 0]
  /\ pbudget = MaxPresenceEvents
  /\ replica = [p \in Replicas |-> "init"]

Init == InitWith(MaxEvents)

Next ==
  \/ \E n \in Nodes : Startup(n)
  \/ \E n \in Nodes : SubSubscribe(n)
  \/ \E n \in Nodes : SubListen(n)
  \/ \E n \in Nodes : SubSend(n)
  \/ \E n \in Nodes : SubDie(n)
  \/ BrokerDown
  \/ BrokerBack
  \/ PeerStartup
  \/ \E type \in PeerTypes : PeerPublish(type)
  \/ \E kind \in WireKinds : PublishRaw(kind)
  \/ \E r \in RoomIds : create_room(r)
  \/ \E s \in Sessions, r \in RoomIds : Open(s, r)
  \/ \E s \in Sessions : Accept(s)
  \/ \E s \in Sessions, data \in Frames : Recv(s, data)
  \/ \E s \in Sessions, data \in Frames : RecvCommitFails(s, data)
  \/ \E s \in Sessions : RecvMalformed(s)
  \/ \E s \in Sessions : RecvDisconnect(s)
  \/ \E s \in Sessions : PublishOk(s)
  \/ \E s \in Sessions : PublishFail(s)
  \/ \E s \in Sessions : PublishAckLost(s)
  \/ \E s \in Sessions : SendStep(s)
  \/ \E s \in Sessions : Cancel(s)
  \/ \E s \in Sessions : ClientClose(s)
  \/ \E s \in Sessions : ClientStall(s)
  \/ \E s \in Sessions : ClientDrain(s)

Spec == Init /\ [][Next]_vars

WideInit == InitWith(MaxWideEvents)

WideSpec == WideInit /\ [][Next]_vars

\* The event loop runs every ready task and every awaited network call
\* completes: the steps of the tasks are weakly fair. The environment's
\* events are not.
Fairness ==
  /\ \A n \in Nodes :
       /\ WF_vars(SubSubscribe(n))
       /\ WF_vars(SubListen(n))
       /\ WF_vars(SubSend(n))
  /\ \A s \in Sessions :
       /\ WF_vars(Accept(s))
       /\ WF_vars(PublishOk(s))
       /\ WF_vars(PublishFail(s))
       /\ WF_vars(SendStep(s))
       /\ WF_vars(RecvDisconnect(s))
       /\ WF_vars(ClientDrain(s))

FairSpec == Spec /\ Fairness

LiveInit == InitWith(MaxLiveEvents)

LiveSpec == LiveInit /\ [][Next]_vars /\ Fairness

\* The presence service on its own: requests and the passing of time.
PresenceNext ==
  \/ \E u \in PresenceUsers, name \in DisplayNames : heartbeat(u, name)
  \/ \E u \in PresenceUsers : go_offline(u)
  \/ \E u \in PresenceUsers, r \in PresenceRooms, name \in DisplayNames :
       start_typing(u, r, name)
  \/ \E u \in PresenceUsers, r \in PresenceRooms : stop_typing(u, r)
  \/ \E d \in Durations : Advance(d)
  \/ StoreDown
  \/ StoreBack
  \/ WriteFails

PresenceSpec == Init /\ [][PresenceNext]_vars

SeedNext ==
  \/ \E p \in Replicas : SeedCountRooms(p)
  \/ \E p \in Replicas : SeedCommitRooms(p)
  \/ \E p \in Replicas : SeedCountMessages(p)
  \/ \E p \in Replicas : SeedCommitMessages(p)

SeedSpec == Init /\ [][SeedNext]_vars


\* ================================================================= claims
\* the events a client has received
Received(c) == {inbox[c][i] : i \in 1..Len(inbox[c])}

\* the events on their way: being published by a session, in a pub/sub
\* connection, being delivered by a subscriber
InFlight ==
  {payload[s] : s \in Sessions}
    \cup UNION {{chan[n][i].data : i \in 1..Len(chan[n])} : n \in Nodes}
    \cup {subPayload[n] : n \in Nodes}

\* event e has a row of its id and room in the Durable Store
Stored(e) ==
  \E i \in 1..Len(messages) :
    messages[i].id = e.id /\ messages[i].room_id = e.room_id

\* the connection of session c is registered and its transport is open
Held(c) == Registered(c) /\ IsOpen(c)

\* the names of the publish calls of a behaviour of LiveSpec
Tags ==
  {<<s, k>> : s \in Sessions, k \in 1..(MaxLiveEvents + 1)}
    \cup {<<"peer", k>> : k \in 1..(MaxLiveEvents + 1)}

Got(c, tag) == \E e \in Received(c) : e.tag = tag

\* C1: persist before publish. A message event that publish_to_room has been
\* handed, that the broker carries or that any client has received has its
\* Message, of that id and room, in the Durable Store.
C1_PersistBeforePublish ==
  \A e \in InFlight \cup UNION {Received(c) : c \in Sessions} :
    e.type = "message" => Stored(e)

\* a client has received the message event of a session of this replica
C1_Witness ==
  \E c \in Sessions : \E e \in Received(c) :
    e.type = "message" /\ e.tag[1] \in Sessions /\ Stored(e)

\* C2: when the commit of a message raises, the Durable Store holds no row
\* of that id, no event of that id is published or delivered, and the
\* session makes no publish_to_room call for that frame.
C2_FailedCommitNotPublished ==
  \A s \in Sessions :
    failed[s] # <<>> =>
      /\ failed[s] \notin StoredIds
      /\ \A e \in InFlight \cup UNION {Received(c) : c \in Sessions} :
           e.id # failed[s] /\ e.tag # failed[s]
      /\ npub[s] < failed[s][2]

\* the commit of a message of an attached session has raised
C2_Witness ==
  \E s \in Sessions : failed[s] # <<>> /\ npub[s] >= 1


\* the broker has sent node n the event of publish call tag, for a room in
\* which n holds the connection of c
Routed(n, c, tag) ==
  \E i \in 1..Len(chan[n]) :
    /\ chan[n][i].wire = "object"
    /\ chan[n][i].data.tag = tag
    /\ c \in Members(manager_rooms[n], chan[n][i].data.room_id)

C4_LocalDeliveryContinues ==
  \A s \in Sessions, c \in Sessions, k \in 1..(MaxEvents + 1) :
    (pc[s] \in {"publish", "send"} /\ payload[s].tag = <<s, k>>
       /\ c \in payload[s].to)
      ~> (Got(c, <<s, k>>) \/ ~Held(c))

\* C5: no duplication. No client receives the event of one publish call
\* twice.
C5_NoDuplicateDelivery ==
  \A c \in Sessions : \A i, j \in 1..Len(inbox[c]) :
    i # j => inbox[c][i].tag # inbox[c][j].tag

\* C6: join before message. In what a peer connection has received, the
\* user_joined of a session comes before every message of that session.
C6_JoinBeforeMessage ==
  \A p \in Sessions : \A s \in Sessions \ {p} :
    \A i, j \in 1..Len(inbox[p]) :
      ( /\ inbox[p][i].type = "message" /\ inbox[p][i].tag[1] = s
        /\ inbox[p][j].type = "user_joined" /\ inbox[p][j].tag[1] = s )
      => j < i

\* C7: when the task of an attached session has ended and its transport was
\* closed or the task was cancelled, its connection is out of the registry
\* and it has published exactly one user_left.
C7_ClosedExactlyOnce ==
  \A s \in Sessions :
    ( /\ pc[s] \in {"left", "errored", "cancelled"}
      /\ npub[s] >= 1
      /\ (transport[s] = "closed" \/ pc[s] = "cancelled") )
    => (~Registered(s) /\ leftPub[s] = 1)

\* C8: a session that ended on an error other than a transport close is out
\* of the registry and has published a user_left.
C8_ErrorPublishesLeft ==
  \A s \in Sessions :
    pc[s] = "errored" => (~Registered(s) /\ leftPub[s] = 1)

\* C9: an attach to a room the Durable Store does not hold is closed with
\* 4004, registers nothing and publishes nothing; every connection enters
\* the registry in a state where its room exists.
C9_UnknownRoomRejected ==
  /\ [](\A s \in Sessions :
          pc[s] = "rejected"
            => closeCode[s] = 4004 /\ ~Registered(s) /\ npub[s] = 0)
  /\ [][\A s \in Sessions :
          /\ (pc[s] = "idle" /\ pc'[s] # "idle" /\ room'[s] \notin rooms)
               => ( /\ pc'[s] = "rejected"
                    /\ manager_rooms' = manager_rooms
                    /\ chan' = chan /\ payload' = payload )
          /\ (~Registered(s) /\ Registered(s)') => room[s] \in rooms]_vars

\* an attach to room ghost was refused while the registry held a connection
C9_Witness ==
  \E s \in Sessions :
    /\ pc[s] = "rejected" /\ room[s] = "ghost" /\ closeCode[s] = 4004
    /\ \E c \in Sessions \ {s} : Registered(c)

\* the body of a message frame is empty once its whitespace is trimmed
BlankMessage(data) ==
  /\ Get(data, "type", "message") = "message"
  /\ \A i \in 1..Len(Get(data, "content", <<>>)) :
       IsSpace(Get(data, "content", <<>>)[i])

\* C10: a message frame whose body is empty after trimming persists nothing,
\* publishes nothing, sends nothing and leaves the session attached and
\* waiting for the next frame.
C10_EmptyBodyIgnored ==
  [][\A s \in Sessions, data \in Frames :
       (BlankMessage(data) /\ (Recv(s, data) \/ RecvCommitFails(s, data)))
         => ( /\ messages' = messages
              /\ chan' = chan /\ payload' = payload /\ npub' = npub
              /\ inbox' = inbox /\ closeCode' = closeCode
              /\ manager_rooms' = manager_rooms
              /\ pc'[s] = "recv" /\ transport'[s] = "open" )]_vars

\* a session ignored an empty message and stored a message with a body
C10_Witness ==
  \E s \in Sessions :
    /\ dropped[s] >= 1
    /\ pc[s] = "recv" /\ Held(s)
    /\ \E i \in 1..Len(messages) : messages[i].id = <<s, 2>>

\* connection a stands before connection b in the list of room r of node n
Before(n, r, a, b) ==
  \E i, j \in 1..Len(Snapshot(manager_rooms[n], r)) :
    /\ i < j
    /\ Snapshot(manager_rooms[n], r)[i].ws = a
    /\ Snapshot(manager_rooms[n], r)[j].ws = b

\* no copy of the event of publish call tag is still on its way
Settled(tag) == \A e \in InFlight : e.tag # tag

\* one write of a send_to_room loop over lst with event pl, resuming at pc
\* position back when none is left: the first connection receives pl if its
\* transport carries it, nobody else receives anything, and the loop goes on
\* with the others whatever the outcome
LoopStep(lst, pl, lst2, at, back) ==
  /\ inbox' = send_json(inbox, Head(lst), pl)
  /\ IF Tail(lst) = <<>> THEN at = back ELSE lst2 = Tail(lst)

\* C11: failure isolation of send_to_room. Every write of the loop leaves
\* the rest of the snapshot to be written to and the call returns to its
\* caller normally; when a connection has received an event and no copy of
\* it is on its way, every connection that was registered for the room at
\* the publish call, still is and has an open transport has received it,
\* whichever connections before it failed.
C11_SendFailureIsolated ==
  /\ [](\A c \in Sessions : \A e \in Received(c) :
          (e.tag[1] \in Sessions /\ Settled(e.tag)
             /\ pc[e.tag[1]] # "cancelled")
            => \A d \in e.to : (Registered(d) /\ IsOpen(d)) => e \in Received(d))
  /\ [][\A s \in Sessions :
          SendStep(s) =>
            LoopStep(snap[s], payload[s], snap'[s], pc'[s],
                     Continuation(payload[s]))]_vars
  /\ [][\A n \in Nodes :
          SubSend(n) =>
            LoopStep(subSnap[n], subPayload[n], subSnap'[n],
                     subscriber_task'[n], "listening")]_vars

\* a send_to_room call failed on a registered connection whose transport was
\* closed and delivered the event to the connection after it
C11_Witness ==
  \E a \in Sessions : \E b \in Sessions \ {a} : \E e \in Received(b) :
    /\ a \in e.to /\ Registered(a) /\ ~IsOpen(a) /\ ~Got(a, e.tag)
    /\ Before(nodeOf[b], e.room_id, a, b)
    /\ Settled(e.tag)

\* a send_to_room loop is at its write to connection c
Attempted(c) ==
  \/ \E s \in Sessions : pc[s] = "send" /\ Head(snap[s]).ws = c
  \/ \E n \in Nodes :
       subscriber_task[n] = "sending" /\ Head(subSnap[n]).ws = c

\* C12: a registered connection on which a write of send_to_room fails (the
\* loop is at it and its transport carries nothing) is eventually removed
\* from the registry.
C12_FailedConnectionDetached ==
  \A c \in Sessions :
    (Registered(c) /\ ~IsOpen(c) /\ Attempted(c)) ~> ~Registered(c)

\* session s starts send_to_room over the list lst of its own node for the
\* event of publish call tag: it is at the first write, or is back at
\* position back when the list is empty
LocalBroadcast(s, tag, lst, back) ==
  /\ \A i \in 1..Len(lst) : nodeOf[lst[i].ws] = nodeOf[s]
  /\ IF lst = <<>>
     THEN pc'[s] = back /\ snap'[s] = <<>>
     ELSE pc'[s] = "send" /\ payload'[s].tag = tag /\ snap'[s] = lst

\* C13: publish fallback. A publish_to_room call made without a broker
\* client, or whose broker publish raises, broadcasts the event to the
\* connections its node holds for the room and hands nothing to the broker
\* itself; a call whose broker publish returns makes no local broadcast and
\* returns. On a node without a broker client an attached session waiting
\* for its next frame has received every event it published while it was in
\* the room.
C13_PublishFallback ==
  /\ [][\A s \in Sessions :
          LET n == nodeOf[s]
              lst == Snapshot(manager_rooms'[n], room[s])
              back == IF leftPub'[s] > leftPub[s] THEN "left" ELSE "recv"
          IN  /\ (npub'[s] = npub[s] + 1 /\ ~redis_client[n])
                   => ( /\ LocalBroadcast(s, <<s, npub'[s]>>, lst, back)
                        /\ chan' = chan )
              /\ (npub'[s] = npub[s] + 1 /\ redis_client[n])
                   => (pc'[s] = "publish" /\ inbox' = inbox /\ chan' = chan)
              /\ PublishFail(s)
                   => ( /\ LocalBroadcast(s, payload[s].tag, lst,
                                          Continuation(payload[s]))
                        /\ chan' = chan )
              /\ PublishAckLost(s)
                   => LocalBroadcast(s, payload[s].tag, lst,
                                     Continuation(payload[s]))
              /\ PublishOk(s)
                   => ( /\ pc'[s] = Continuation(payload[s])
                        /\ snap'[s] = <<>> /\ inbox' = inbox )]_vars
  /\ [](\A s \in Sessions :
          (~redis_client[nodeOf[s]] /\ pc[s] = "recv" /\ IsOpen(s))
            => \A k \in 1..npub[s] : Got(s, <<s, k>>))

\* on a node without a broker client a session has received the message it
\* sent and is waiting for its next frame
C13_Witness ==
  \E s \in Sessions :
    /\ ~redis_client[nodeOf[s]] /\ pc[s] = "recv" /\ IsOpen(s)
    /\ \E e \in Received(s) : e.type = "message" /\ e.tag = <<s, 2>>

\* C14: broker reconnect. Whenever a serving node finds the broker reachable,
\* its subscribe loop eventually holds the room:* subscription again (or the
\* broker is lost once more), so that what peers publish reaches it.
C14_SubscribeLoopResumes ==
  \A n \in Nodes :
    (node[n] = "serving" /\ brokerUp) ~> (Subscribed(n) \/ ~brokerUp)

\* the text of a pmessage is no JSON, no JSON object or has no room_id
Malformed(raw) == raw.wire # "object" \/ raw.data.room_id = None

\* C15: the subscribe loop survives bad input. A pmessage whose text is no
\* JSON, no JSON object or has no room_id is taken off the connection and
\* handed to nobody, and the loop is back at listening; no client ever
\* receives anything of such text; the loop ends only when the broker is
\* lost.
C15_BadInputDropped ==
  /\ [][\A n \in Nodes :
          (SubListen(n) /\ Malformed(Head(chan[n])))
            => ( /\ inbox' = inbox /\ subSnap' = subSnap
                 /\ chan'[n] = Tail(chan[n])
                 /\ subscriber_task'[n] = "listening" )]_vars
  /\ [](\A c \in Sessions : \A e \in Received(c) :
          e.type \notin {"malformed", "system"} /\ e.room_id # None)
  /\ [][\A n \in Nodes :
          (subscriber_task[n] # "dead" /\ subscriber_task'[n] = "dead")
            => ~brokerUp]_vars

\* the subscribe loop dropped the first text published to the node and a
\* client has received the message a peer published after it
C15_Witness ==
  \E c \in Sessions :
    /\ skipped[nodeOf[c]] >= 1
    /\ npeer = 2
    /\ ~Got(c, <<"peer", 1>>)
    /\ \E e \in Received(c) : e.tag = <<"peer", 2>> /\ e.type = "message"

\* C16: per-room publish order from one node. The publish_to_room calls of
\* one session are made one after the other, each for its room; in what a
\* connection has received, the event of an earlier call never comes after
\* the event of a later call of that session.
C16_PublishOrderPreserved ==
  \A c \in Sessions : \A i, j \in 1..Len(inbox[c]) :
    ( /\ i < j
      /\ inbox[c][i].tag[1] \in Sessions
      /\ inbox[c][i].tag[1] = inbox[c][j].tag[1] )
    => inbox[c][i].tag[2] <= inbox[c][j].tag[2]

\* the permitted requested counts
Permitted == {n \in Limits : n <= MaxLimit}

\* C17: a message whose event a client has received is in every history
\* read of its room, for every permitted count.
C17_HistoryHasAcknowledged ==
  \A c \in Sessions : \A e \in Received(c) :
    e.type = "message" =>
      \A n \in Permitted :
        /\ get_messages(e.room_id, n).status = 200
        /\ \A body \in get_messages(e.room_id, n).bodies :
             \E i \in 1..Len(body) : body[i].id = e.id

\* C18: a history read of an existing room returns rows of that room only,
\* in ascending created_at, and one sequence only for one store; a read of
\* an unknown room answers not-found.
C18_HistoryOrderDeterministic ==
  \A r \in RoomIds \cup SEED_ROOMS : \A n \in Permitted :
    IF RoomExists(r)
    THEN /\ get_messages(r, n).status = 200
         /\ \A body \in get_messages(r, n).bodies :
              /\ \A i \in 1..Len(body) : body[i].room_id = r
              /\ \A i, j \in 1..Len(body) :
                   i < j => body[i].created_at <= body[j].created_at
         /\ Cardinality(get_messages(r, n).bodies) = 1
    ELSE get_messages(r, n).status = 404

\* C19: a history read succeeds for every requested count n and returns at
\* most min(n, MaxLimit) rows.
C19_HistoryCapped ==
  \A r \in SEED_ROOMS : \A n \in Limits :
    RoomExists(r) =>
      /\ get_messages(r, n).status = 200
      /\ \A body \in get_messages(r, n).bodies :
           Len(body) <= (IF n < MaxLimit THEN n ELSE MaxLimit)

\* C20: with a TTL of 30 s, a user whose last heartbeat was at time T and
\* who has not gone offline since is returned by the list of online users
\* and reported online by the per-user read at every time strictly before
\* T + TTL, and is absent from the list and reported offline at every time
\* after T + TTL.
Listed(u) == \E p \in get_all_online : p.user_id = u

C20_PresenceExpiry ==
  \A u \in PresenceUsers :
    lastBeat[u] >= 0 =>
      /\ now < lastBeat[u] + ONLINE_TTL_SECONDS * 1000 =>
           Listed(u) /\ get_user_presence(u).online
      /\ now > lastBeat[u] + ONLINE_TTL_SECONDS * 1000 =>
           ~Listed(u) /\ ~get_user_presence(u).online

\* C21: after a start_typing for a room and a user, with no further
\* start_typing nor stop_typing for them, the user is returned by the
\* typing read of the room until the typing TTL of 5 s has elapsed, and is
\* absent from it at every read after the TTL has elapsed.
TypingListed(r, u) == \E p \in get_typing_in_room(r) : p.user_id = u

C21_TypingExpiry ==
  \A r \in PresenceRooms, u \in PresenceUsers :
    lastTyping[r, u] >= 0 =>
      /\ now < lastTyping[r, u] + TYPING_TTL_SECONDS * 1000 =>
           TypingListed(r, u)
      /\ now > lastTyping[r, u] + TYPING_TTL_SECONDS * 1000 =>
           ~TypingListed(r, u)

\* C22: ConnectionManager.disconnect is idempotent. For every registry the
\* node reaches, every connection and every room: a second call leaves the
\* registry as the first call left it; a call for a connection or a room
\* that is not registered leaves the registry as it was; and a call removes
\* the entries of the given connection from the given room and nothing
\* else.
Count(lst, ws) == Cardinality({i \in 1..Len(lst) : lst[i].ws = ws})

C22_DetachIdempotent ==
  \A n \in Nodes, s \in Sessions, r \in RoomIds :
    LET M == manager_rooms[n]
        D == disconnect(M, s, r)
    IN  /\ disconnect(D, s, r) = D
        /\ s \notin Members(M, r) => D = M
        /\ DOMAIN D = DOMAIN M
        /\ \A r2 \in DOMAIN M, c \in Sessions :
             Count(D[r2], c) =
               IF r2 = r /\ c = s THEN 0 ELSE Count(M[r2], c)

\* a session has been detached while another one is still registered in
\* its room: a second detach of the first finds it absent
C22_Witness ==
  \E s, c \in Sessions :
    /\ s # c
    /\ pc[s] = "left"
    /\ ~Registered(s)
    /\ room[s] = room[c]
    /\ c \in Members(manager_rooms[nodeOf[s]], room[s])

\* what the three reads of the presence service return
Reads ==
  [online |-> get_all_online,
   user   |-> [u \in PresenceUsers |-> get_user_presence(u)],
   typing |-> [r \in PresenceRooms |-> get_typing_in_room(r)]]

\* the keys the store holds, with their values and expiry times
Contents == [k \in PresenceKeys |-> IF Live(k) THEN pstore[k] ELSE Absent]

\* C23: go_offline and stop_typing are idempotent. After either, the entry
\* is gone and no read returns it; when the entry was already absent
\* (deleted by an earlier call, expired, or never written) the call leaves
\* the contents of the Presence Store and the result of every read as they
\* were.
C23_DeleteIdempotent ==
  /\ [][\A u \in PresenceUsers :
          go_offline(u) =>
            /\ ~Live(UserKey(u))'
            /\ ~Listed(u)' /\ ~get_user_presence(u).online'
            /\ ~Live(UserKey(u)) => (Contents' = Contents /\ Reads' = Reads)
       ]_vars
  /\ [][\A u \in PresenceUsers, r \in PresenceRooms :
          stop_typing(u, r) =>
            /\ ~Live(TypingKey(r, u))'
            /\ TypingKey(r, u) \notin keys(<<"presence", "typing">>)'
            /\ ~Live(TypingKey(r, u)) =>
                 (Contents' = Contents /\ Reads' = Reads)
       ]_vars

\* both requests have found their entry absent while another user was
\* online
C23_Witness ==
  /\ absentDeletes["user"] >= 1
  /\ absentDeletes["typing"] >= 1
  /\ get_all_online # {}

\* C24: go_offline is an early deletion. Right after it, and for as long as
\* no heartbeat of the user follows, the user is absent from the list of
\* online users and the per-user read reports offline, whatever was left of
\* the TTL; a heartbeat of the user after it makes the user online again.
C24_EarlyDeletion ==
  /\ [](\A u \in PresenceUsers :
          lastBeat[u] = -2 => ~Listed(u) /\ ~get_user_presence(u).online)
  /\ [][\A u \in PresenceUsers, name \in DisplayNames :
          (lastBeat[u] = -2 /\ heartbeat(u, name))
            => Listed(u)' /\ get_user_presence(u).online']_vars

\* connection c is not the one the write waits for, can take a frame, and
\* has not yet been written the event of publish call tag
Ready(c, tag) == IsOpen(c) /\ ~Pending(c) /\ ~Got(c, tag)

\* C25: tasks never block each other. While a write to a slow client is
\* pending in send_to_room, the delivery of the same event to every other
\* connection of the list can go on (some step of the node hands it the
\* event), and the subscribe loop can take the next event of its
\* connection, for whatever room it is.
C25_SlowClientBlocksNobody ==
  /\ \A n \in Nodes :
       (subscriber_task[n] = "sending" /\ Pending(Head(subSnap[n]).ws)) =>
         /\ \A i \in 2..Len(subSnap[n]) :
              Ready(subSnap[n][i].ws, subPayload[n].tag) =>
                ENABLED (Next /\ Got(subSnap[n][i].ws, subPayload[n].tag)')
         /\ chan[n] # <<>> => ENABLED SubListen(n)
  /\ \A s \in Sessions :
       (pc[s] = "send" /\ Pending(Head(snap[s]).ws)) =>
         \A i \in 2..Len(snap[s]) :
           Ready(snap[s][i].ws, payload[s].tag) =>
             ENABLED (Next /\ Got(snap[s][i].ws, payload[s].tag)')

\* C26: when the Presence Store does not answer, the list of online users,
\* the per-user read and the typing read of a room answer the caller with
\* an empty or partial result instead of failing the request.
C26_ReadsDegrade ==
  ~storeUp =>
    /\ Reply(get_all_online).status = 200
    /\ \A u \in PresenceUsers : Reply(get_user_presence(u)).status = 200
    /\ \A r \in PresenceRooms : Reply(get_typing_in_room(r)).status = 200

\* the client of session s has been told of an error: a close code chosen
\* by the handler, or an error frame
Surfaced(s) ==
  closeCode[s] # 0 \/ \E e \in Received(s) : e.type = "error"

\* C27: a persistence failure is reported to the one connection it
\* concerns. The client whose message could not be committed is told so on
\* its connection, and the failure touches no other session: the other
\* connections stay registered, their handlers stay where they were and
\* their transports stay open.
C27_PersistenceFailureSurfaced ==
  /\ [](\A s \in Sessions :
          (pc[s] = "errored" /\ failed[s] # <<>>) => Surfaced(s))
  /\ [][\A s \in Sessions, data \in Frames :
          RecvCommitFails(s, data) =>
            \A c \in Sessions \ {s} :
              /\ Registered(c)' = Registered(c)
              /\ pc'[c] = pc[c]
              /\ transport'[c] = transport[c]
              /\ inbox'[c] = inbox[c]]_vars

\* C28: the connections of one user are independent. A step that detaches
\* a connection removes that connection from the list of its room and
\* nothing else: every other connection of the same user, in the same room
\* or another, keeps its place in the registry and in every broadcast in
\* progress, its handler and its transport are untouched, and it loses
\* nothing of what it has received, so every later broadcast for its room
\* still goes to it.
C28_ConnectionsIndependent ==
  [][\A s \in Sessions :
       (Registered(s) /\ ~Registered(s)') =>
         /\ manager_rooms'[nodeOf[s]]
              = disconnect(manager_rooms[nodeOf[s]], s, room[s])
         /\ \A c \in Sessions \ {s} :
              userOf[c] = userOf[s] =>
                /\ \A r \in RoomIds :
                     Count(Snapshot(manager_rooms'[nodeOf[c]], r), c)
                       = Count(Snapshot(manager_rooms[nodeOf[c]], r), c)
                /\ \A n \in Nodes : Count(subSnap'[n], c) = Count(subSnap[n], c)
                /\ \A t \in Sessions \ {s} : Count(snap'[t], c) = Count(snap[t], c)
                /\ pc'[c] = pc[c] /\ transport'[c] = transport[c]
                /\ Len(inbox'[c]) >= Len(inbox[c])
                /\ SubSeq(inbox'[c], 1, Len(inbox[c])) = inbox[c]]_vars

\* a connection of alice was detached and her other connection, still
\* registered, has since received the user_left of the first
C28_Witness ==
  \E s, c \in Sessions :
    /\ s # c /\ userOf[s] = userOf[c]
    /\ pc[s] \in Terminal /\ ~Registered(s)
    /\ Held(c)
    /\ \E e \in Received(c) : e.type = "user_left" /\ e.tag[1] = s

\* the kinds a Message may have (MessageModel.message_type: text | file |
\* system)
Kinds == {"text", "file", "system"}

\* C29: every Message in the Durable Store has one of the kinds text, file
\* and system, whatever message_type the clients have sent.
C29_StoredKindValid ==
  \A i \in 1..Len(messages) : messages[i].message_type \in Kinds

\* C30: the message log is append-only with unique identifiers. No step of
\* a session, a peer or a node startup removes or changes a stored Message:
\* the table after the step begins with the table before it; and no two
\* Messages have the same id.
C30_AppendOnlyUniqueIds ==
  /\ [][/\ Len(messages') >= Len(messages)
        /\ SubSeq(messages', 1, Len(messages)) = messages]_vars
  /\ [](\A i, j \in 1..Len(messages) :
          messages[i].id = messages[j].id => i = j)

\* the node has started on a store that held messages already, and the
\* store holds the seed messages, a message of a peer replica and a message
\* of a session of the node
C30_Witness ==
  /\ \A n \in Nodes : node[n] = "serving"
  /\ SubSeq(messages, 1, Len(SeedRows)) = SeedRows
  /\ \E i, j \in 1..Len(messages) :
       /\ i < j
       /\ messages[i].id[1] = "peer"
       /\ messages[j].id[1] \in Sessions

\* the frame is a typing or a stop_typing event
IsTyping(data) == Get(data, "type", "message") \in {"typing", "stop_typing"}

\* C31: a typing or stop_typing frame persists nothing and makes one
\* publish_to_room call, for an event of the same type that carries the
\* room id, the user id and the display name of the session; the turn hands
\* the broker and the clients nothing else.
C31_TypingEphemeral ==
  [][\A s \in Sessions, data \in Frames :
       (IsTyping(data) /\ Recv(s, data)) =>
         /\ messages' = messages /\ rooms' = rooms
         /\ npub'[s] = npub[s] + 1
         /\ pc'[s] \in {"publish", "send"}
         /\ payload'[s].type = data.type
         /\ payload'[s].room_id = room[s]
         /\ payload'[s].user_id = userOf[s]
         /\ payload'[s].username = nameOf[s]
         /\ payload'[s].tag = <<s, npub'[s]>>
         /\ chan' = chan /\ inbox' = inbox
         /\ \A t \in Sessions \ {s} : payload'[t] = payload[t]]_vars

\* a client has received the typing event of another session, and the
\* store holds the seed messages only
C31_Witness ==
  /\ messages = SeedRows
  /\ \E c \in Sessions : \E e \in Received(c) :
       /\ e.type = "typing" /\ e.tag[1] \in Sessions \ {c}
       /\ e.room_id = room[c] /\ e.username = nameOf[e.tag[1]]

\* message event e is a copy of the stored row: all fields but the time
CopyOf(e, row) ==
  /\ e.id = row.id /\ e.id # <<>>
  /\ e.room_id = row.room_id
  /\ e.user_id = row.user_id
  /\ e.username = row.username
  /\ e.content = row.content
  /\ e.message_type = row.message_type
  /\ e.file_url = row.file_url

\* C32: a published message event is a faithful copy of the persisted
\* record. Every message event of a session of the node that is handed to
\* publish_to_room, carried by the broker or received by a client has a
\* Message in the Durable Store with
\* its id, room, user id, display name, trimmed body, kind and file
\* reference, and its timestamp is the creation time of that Message.
C32_EventCopiesRecord ==
  \A e \in InFlight \cup UNION {Received(c) : c \in Sessions} :
    (e.type = "message" /\ e.tag[1] \in Sessions) =>
      \E i \in 1..Len(messages) :
        /\ CopyOf(e, messages[i])
        /\ e.timestamp = isoformat(messages[i].created_at)

\* manager.connect has run for session s; manager.disconnect has run for it
Attached(s) == npub[s] >= 1

Detached(s) == leftPub[s] >= 1 \/ pc[s] = "errored"

\* C33: registry consistency under interleaving. In every state the tasks
\* of a node reach, the list of each room holds once each connection that
\* was attached to the room and not detached since, and nothing else; and a
\* step changes the list of a room only if it is the attach or the detach
\* of a session of that room, so that attaches, detaches and broadcasts
\* leave the lists of the other rooms alone.
C33_RegistryConsistent ==
  /\ [](\A s \in Sessions, r \in RoomIds :
          Count(Snapshot(manager_rooms[nodeOf[s]], r), s)
            = IF Attached(s) /\ ~Detached(s) /\ room[s] = r THEN 1 ELSE 0)
  /\ [][\A n \in Nodes, r \in RoomIds :
          Snapshot(manager_rooms'[n], r) # Snapshot(manager_rooms[n], r) =>
            \E s \in Sessions :
              /\ nodeOf[s] = n /\ room[s] = r
              /\ Attached(s)' /\ (~Attached(s) \/ (Detached(s)' /\ ~Detached(s)))
              /\ \A c \in Sessions \ {s} :
                   Count(Snapshot(manager_rooms'[n], r), c)
                     = Count(Snapshot(manager_rooms[n], r), c)]_vars

\* two connections are registered in two rooms
C33_Witness ==
  \E s, c \in Sessions :
    /\ Registered(s) /\ Registered(c)
    /\ room[s] # room[c]
    /\ Members(manager_rooms[nodeOf[s]], room[s]) = {s}
    /\ Members(manager_rooms[nodeOf[c]], room[c]) = {c}

\* C34: every heartbeat overwrites the stored display name and sets the
\* expiry to a full TTL from now, whatever was left of the earlier one; so
\* a user whose latest heartbeat is less than a TTL old is online at every
\* read, and both reads return the display name of that heartbeat.
C34_HeartbeatRefreshes ==
  /\ [][\A u \in PresenceUsers, name \in DisplayNames :
          heartbeat(u, name) =>
            pstore'[UserKey(u)] =
              [value |-> name,
               expire_at |-> now + ONLINE_TTL_SECONDS * 1000]]_vars
  /\ [](\A u \in PresenceUsers :
          (lastBeat[u] >= 0 /\ now < lastBeat[u] + ONLINE_TTL_SECONDS * 1000)
            => /\ get_user_presence(u).online
               /\ get_user_presence(u).username = pstore[UserKey(u)].value
               /\ \E p \in get_all_online :
                    /\ p.user_id = u
                    /\ p.username = pstore[UserKey(u)].value)

\* C35: room isolation of delivery. Whatever a client has received, through
\* the subscribe loop or through a local broadcast, is an event whose
\* room_id is the room its connection is attached to; and every write in
\* progress is the write of an event to connections of the event's room.
C35_RoomIsolation ==
  /\ \A c \in Sessions : \A e \in Received(c) : e.room_id = room[c]
  /\ \A n \in Nodes : \A i \in 1..Len(subSnap[n]) :
       room[subSnap[n][i].ws] = subPayload[n].room_id
  /\ \A s \in Sessions : \A i \in 1..Len(snap[s]) :
       room[snap[s][i].ws] = payload[s].room_id

\* two clients attached to two rooms have each received an event of their
\* own room
C35_Witness ==
  \E s, c \in Sessions :
    /\ room[s] # room[c]
    /\ Held(s) /\ Held(c)
    /\ Received(s) # {} /\ Received(c) # {}

\* C36: no leaked registrations. Once the task of a session has ended, for
\* whatever reason (transport close, an exception while handling an event,
\* cancellation while it awaits a client event or a publish), its connection
\* is in no list of the registry.
C36_NoLeakedRegistration ==
  \A s \in Sessions : pc[s] \in Terminal => ~Registered(s)

\* a typing entry of the room and the user is live: written by a
\* start_typing, not removed by a stop_typing since, TTL not elapsed
TypingLive(r, u) ==
  /\ lastTyping[r, u] >= 0
  /\ now < lastTyping[r, u] + TYPING_TTL_SECONDS * 1000

\* C37: the typing read is exact per room, for ids with or without a colon.
\* The read of room r returns a user id exactly when a live typing entry of
\* that room and that user exists, so never a user typing only in another
\* room and never another id than the one given to start_typing; and right
\* after start_typing(u, r, name) the read of r returns the pair (u, name).
C37_TypingExact ==
  /\ [](\A r \in PresenceRooms :
          /\ \A u \in PresenceUsers : TypingLive(r, u) => TypingListed(r, u)
          /\ \A p \in get_typing_in_room(r) :
               \E u \in PresenceUsers : p.user_id = u /\ TypingLive(r, u))
  /\ [][\A u \in PresenceUsers, r \in PresenceRooms, name \in DisplayNames :
          start_typing(u, r, name) =>
            [user_id |-> u, username |-> name, room_id |-> r]
              \in get_typing_in_room(r)']_vars

\* C38: the two presence reads agree. In every state of the Presence Store,
\* read with no write or expiry in between, a user is in the list of online
\* users exactly when the per-user read reports the user online; the list
\* holds the user once, under the display name the per-user read reports;
\* and for an offline user the per-user read of an answering store is a
\* normal reply with online = false.
C38_ReadsAgree ==
  \A u \in PresenceUsers :
    LET one == get_user_presence(u)
        all == {p \in get_all_online : p.user_id = u}
    IN  /\ (all # {}) <=> one.online
        /\ Cardinality(all) <= 1
        /\ \A p \in all : p.username = one.username /\ p.online
        /\ \A p \in get_all_online : p.user_id \in PresenceUsers
        /\ (storeUp /\ ~one.online) =>
             Reply(one) = [status |-> 200,
                           body   |-> [user_id |-> u, username |-> one.username,
                                       online |-> FALSE]]

\* a user whose id holds a colon is online in both reads while the other
\* user, whose entry has not expired yet, is offline in both
C38_Witness ==
  /\ storeUp
  /\ Listed("dev:alice") /\ get_user_presence("dev:alice").online
  /\ Live(UserKey("alice"))
  /\ ~Listed("alice") /\ ~get_user_presence("alice").online

\* the seed messages the store holds that are copies of seed message i
SeedCopies(i) ==
  {j \in 1..Len(messages) :
     /\ messages[j].room_id = SEED_MESSAGES[i].room_id
     /\ messages[j].user_id = SEED_MESSAGES[i].user_id
     /\ messages[j].created_at = SeedRows[i].created_at}

\* C39: seeding is safe when replicas start together on one empty Durable
\* Store. In every interleaving of their seeding statements no replica's
\* startup fails, the store never holds a seed message twice, a replica
\* that has seeded has found or left each seed room and each seed message
\* in the store exactly once, and a table that is not empty is never added
\* to.
C39_SeedingSafe ==
  /\ [](\A p \in Replicas : replica[p] # "failed")
  /\ [](\A i \in 1..Len(SEED_MESSAGES) : Cardinality(SeedCopies(i)) <= 1)
  /\ [](\A p \in Replicas :
          replica[p] = "seeded" =>
            /\ SEED_ROOMS \subseteq rooms
            /\ \A i \in 1..Len(SEED_MESSAGES) : Cardinality(SeedCopies(i)) = 1)
  /\ [][/\ rooms' # rooms => rooms = {}
        /\ messages' # messages => messages = <<>>]_vars

\* the frame with "type": "message" put in front of its other fields
Typed(data) ==
  [k \in DOMAIN data \cup {"type"} |->
     IF k = "type" THEN "message" ELSE data[k]]

\* a step taken while session s waits in receive_json that spends an event
\* and is no step of a peer, of the broker, of a transport or of a new room:
\* what every turn of the loop of s is
Turn(s) ==
  /\ pc[s] = "recv"
  /\ budget' # budget
  /\ UNCHANGED <<npeer, stalled, brokerUp, transport, rooms, room, node>>

\* the step stores a row or counts one more ignored frame
Consumed == messages' # messages \/ dropped' # dropped

\* C40: client event dispatch. A frame received while attached whose type
\* is none of message, typing and stop_typing stores nothing, publishes
\* nothing and leaves the session attached and waiting for the next frame;
\* a frame with no type field is handled exactly as the same frame with
\* type "message": a step that handles the one stores a row or counts an
\* empty body and is a step that handles the other, and the other way
\* round; with a body it stores one row and publishes one message event.
C40_Dispatch ==
  [][\A s \in Sessions : Turn(s) => \A data \in Frames :
       /\ ("type" \in DOMAIN data
             /\ data.type \notin {"message", "typing", "stop_typing"}
             /\ Recv(s, data)) =>
            /\ UNCHANGED <<storeVars, brokerVars, manager_rooms, taskVars,
                           inbox, npub, leftPub, dropped>>
            /\ pc'[s] = "recv" /\ Registered(s)'
       /\ "type" \notin DOMAIN data =>
            IF Recv(s, data)
            THEN /\ Consumed /\ Recv(s, Typed(data))
                 /\ ~IsEmptyBody(data) =>
                      /\ Len(messages') = Len(messages) + 1
                      /\ messages'[Len(messages')].id = <<s, npub'[s]>>
                      /\ payload'[s].type = "message"
                      /\ payload'[s].id = <<s, npub'[s]>>
                      /\ npub'[s] = npub[s] + 1
            ELSE ~(Consumed /\ Recv(s, Typed(data)))
    ]_vars

\* a frame without a type has been stored as a message and its event has
\* reached a client
C40_Witness ==
  \E s \in Sessions :
    /\ \E i \in 1..Len(messages) :
         messages[i].id[1] = s /\ messages[i].message_type = "video"
    /\ \E e \in Received(s) : e.type = "message" /\ e.message_type = "video"

====
